---- MODULE Spec2Model ----
(***************************************************************************)
(* Metadata enrichment engine of the Pustaka Nusantara book pipeline:      *)
(*   scripts/api_enrichment.py   Open Library enrichment (merge on title)  *)
(*   scripts/get_google_data.py  Google Books enrichment (per-title cache) *)
(* Python strings that the code strips, lowers or compares are sequences   *)
(* of one-character strings; a DataFrame cell is a record [isna, s].       *)
(* An optional value (a dict key that may be missing, a DataFrame value    *)
(* that may be NaN) is a sequence of length 0 or 1.                        *)
(***************************************************************************)
EXTENDS Integers, Sequences, FiniteSets, TLC

(***************************************************************************)
(* Bounds of the model                                                     *)
(***************************************************************************)
MaxRows == 2
MaxSample == 2
MaxRuns == 2
LongRows == 53

(***************************************************************************)
(* Python string operations                                                *)
(***************************************************************************)
UpperLetters == <<"A","B","C","D","E","F","G","H","I","J","K","L","M",
                  "N","O","P","Q","R","S","T","U","V","W","X","Y","Z">>
LowerLetters == <<"a","b","c","d","e","f","g","h","i","j","k","l","m",
                  "n","o","p","q","r","s","t","u","v","w","x","y","z">>

LowerTable ==
    [c \in { UpperLetters[i] : i \in 1..26 } |->
        LowerLetters[CHOOSE i \in 1..26 : UpperLetters[i] = c]]

LowerChar(c) == IF c \in DOMAIN LowerTable THEN LowerTable[c] ELSE c

Lower(s) == [i \in 1..Len(s) |-> LowerChar(s[i])]

IsSpace(c) == c = " "

RECURSIVE LStrip(_)
LStrip(s) == IF s # <<>> /\ IsSpace(Head(s)) THEN LStrip(Tail(s)) ELSE s

RECURSIVE RStrip(_)
RStrip(s) ==
    IF s # <<>> /\ IsSpace(s[Len(s)]) THEN RStrip(SubSeq(s, 1, Len(s) - 1)) ELSE s

Strip(s) == RStrip(LStrip(s))

RemoveDashes(s) == SelectSeq(s, LAMBDA c : c # "-")

\* DataFrame cells: a float NaN or a Python str.
NaN == [isna |-> TRUE, s |-> <<>>]
Cell(s) == [isna |-> FALSE, s |-> s]

\* str(x): str(float('nan')) is 'nan'
Str(c) == IF c.isna THEN <<"n","a","n">> ELSE c.s

\* Python truthiness of a cell: NaN is a non-zero float, '' is false
Truthy(c) == c.isna \/ c.s # <<>>

\* dict.get(key, default) on an optional value
Get(opt, default) == IF opt = <<>> THEN default ELSE opt[1]

\* seq[:n]
Take(seq, n) == SubSeq(seq, 1, IF Len(seq) < n THEN Len(seq) ELSE n)

\* ', '.join(seq) on a list of str
RECURSIVE Join(_)
Join(seq) ==
    IF seq = <<>> THEN ""
    ELSE IF Len(seq) = 1 THEN seq[1]
    ELSE seq[1] \o ", " \o Join(Tail(seq))

STR_nan == <<"n","a","n">>
STR_unknown == <<"u","n","k","n","o","w","n">>
STR_Unknown == <<"U","n","k","n","o","w","n">>
STR_Dune == <<"D","u","n","e">>
STR_Emma == <<"E","m","m","a">>

(***************************************************************************)
(* api_enrichment.py: Default Record Policy and the Open Library record    *)
(***************************************************************************)
max_retries == 3

ApiColumns ==
    {"api_found", "api_title", "api_author", "api_authors_all",
     "api_first_publish_year", "api_isbn", "api_isbn_all", "api_publisher",
     "api_publishers_all", "api_language", "api_number_of_pages",
     "api_subject", "api_edition_count", "api_has_fulltext", "api_search_url"}

\* api_isbn is the int 0 in the source; it is written "0" here because the
\* found record holds a str in the same column.
get_default_data(found) ==
    [api_found |-> found,
     api_title |-> "Unknown",
     api_author |-> "Unknown Author",
     api_authors_all |-> "Unknown Author",
     api_first_publish_year |-> 2020,
     api_isbn |-> "0",
     api_isbn_all |-> "0",
     api_publisher |-> "Unknown Publisher",
     api_publishers_all |-> "Unknown Publisher",
     api_language |-> "en",
     api_number_of_pages |-> 200,
     api_subject |-> "General",
     api_edition_count |-> 1,
     api_has_fulltext |-> FALSE,
     api_search_url |-> "https://openlibrary.org/"]

\* a list-valued key of the response that is present and non-empty
ListTruthy(opt) == opt # <<>> /\ opt[1] # <<>>

\* book.get(key, [default])[0] raises IndexError on a present, empty list
BookRaises(book) ==
    \/ book.author_name = << <<>> >>
    \/ book.isbn = << <<>> >>
    \/ book.publisher = << <<>> >>
    \/ book.language = << <<>> >>

FoundRecord(book) ==
    [api_found |-> TRUE,
     api_title |-> Get(book.title, "Unknown"),
     api_author |-> Get(book.author_name, <<"Unknown Author">>)[1],
     api_authors_all |->
        IF ListTruthy(book.author_name) THEN Join(book.author_name[1]) ELSE "Unknown",
     api_first_publish_year |-> Get(book.first_publish_year, 2020),
     api_isbn |-> Get(book.isbn, <<"0">>)[1],
     api_isbn_all |->
        IF ListTruthy(book.isbn) THEN Join(Take(book.isbn[1], 3)) ELSE "0",
     api_publisher |-> Get(book.publisher, <<"Unknown">>)[1],
     api_publishers_all |->
        IF ListTruthy(book.publisher) THEN Join(Take(book.publisher[1], 3)) ELSE "Unknown",
     api_language |-> Get(book.language, <<"en">>)[1],
     api_number_of_pages |-> Get(book.number_of_pages_median, 200),
     api_subject |->
        IF ListTruthy(book.subject) THEN Join(Take(book.subject[1], 5)) ELSE "General",
     api_edition_count |-> Get(book.edition_count, 1),
     api_has_fulltext |-> Get(book.has_fulltext, FALSE),
     api_search_url |->
        IF book.key # <<>> /\ book.key[1] # ""
        THEN "https://openlibrary.org" \o book.key[1]
        ELSE "https://openlibrary.org/"]

\* Documents the Open Library search may return as docs[0]
BookBare ==
    [title |-> <<>>, author_name |-> <<>>, first_publish_year |-> <<>>,
     isbn |-> <<>>, publisher |-> <<>>, language |-> <<>>,
     number_of_pages_median |-> <<>>, subject |-> <<>>, edition_count |-> <<>>,
     has_fulltext |-> <<>>, key |-> <<>>]

BookFull ==
    [title |-> <<"Dune">>, author_name |-> << <<"Frank Herbert", "B. Herbert">> >>,
     first_publish_year |-> <<1965>>,
     isbn |-> << <<"9780441013593", "0441013597", "9780340960196", "0340960191">> >>,
     publisher |-> << <<"Ace">> >>, language |-> << <<"eng">> >>,
     number_of_pages_median |-> <<412>>,
     subject |-> << <<"Fiction", "Science fiction", "Desert", "Ecology", "Politics", "Religion">> >>,
     edition_count |-> <<120>>, has_fulltext |-> <<TRUE>>, key |-> <<"/works/OL893415W">>]

BookNoAuthors == [BookBare EXCEPT !.title = <<"Emma">>, !.author_name = << <<>> >>]

\* Outcomes of one requests.get(base_url, params, timeout=10) and of reading it
OLResponses ==
    { [kind |-> "timeout", body |-> "none", book |-> BookBare],
      [kind |-> "error", body |-> "none", book |-> BookBare],
      [kind |-> "non200", body |-> "none", book |-> BookBare],
      [kind |-> "ok", body |-> "badjson", book |-> BookBare],
      [kind |-> "ok", body |-> "nodocs", book |-> BookBare],
      [kind |-> "ok", body |-> "docs", book |-> BookBare],
      [kind |-> "ok", body |-> "docs", book |-> BookFull],
      [kind |-> "ok", body |-> "docs", book |-> BookNoAuthors] }

\* What one pass of the retry loop's body does with the outcome r:
\* "return" (with a record) or "continue" (next attempt)
\* an empty docs list taken for a match
AttemptResult_EmptyIsFound(r) ==
    IF r.kind = "ok" /\ r.body = "nodocs"
    THEN [action |-> "return", record |-> get_default_data(TRUE)]
    ELSE IF r.kind = "ok" /\ r.body = "docs" /\ ~BookRaises(r.book)
    THEN [action |-> "return", record |-> FoundRecord(r.book)]
    ELSE [action |-> "continue", record |-> get_default_data(FALSE)]

AttemptResult(r) ==
    IF r.kind = "ok" /\ r.body = "nodocs"
    THEN [action |-> "return", record |-> get_default_data(FALSE)]
    ELSE IF r.kind = "ok" /\ r.body = "docs" /\ ~BookRaises(r.book)
    THEN [action |-> "return", record |-> FoundRecord(r.book)]
    ELSE [action |-> "continue", record |-> get_default_data(FALSE)]

\* the loop bound off by one: range(max_retries + 1)
AttemptsLeft_OffByOne(attempt) == attempt <= max_retries

\* for attempt in range(max_retries)
AttemptsLeft(attempt) == attempt < max_retries

\* the fall-through return built with found=True
FailureRecord_Found == get_default_data(TRUE)

\* line 118, after the loop: the record returned when every attempt failed
FailureRecord == get_default_data(FALSE)

\* time.sleep(delay) at line 157 follows every search_book_by_title call,
\* whatever number of requests the call issued
SleepAfterTitle(requests) == TRUE

\* the early return of search_book_by_title on a blank or 'nan' title
IsBlankTitle(title) ==
    LET clean_title == Strip(Str(title))
    IN  clean_title = <<>> \/ Lower(clean_title) = STR_nan

(***************************************************************************)
(* get_google_data.py: the Google Books lookup chain                       *)
(***************************************************************************)
FlushEvery == 50

GoogleColumns ==
    {"google_rating", "google_ratings_count", "google_page_count",
     "google_categories", "google_description"}

\* volumeInfo objects a response may carry.  averageRating is a float in the
\* service's answers; whole numbers stand for it here.
VolBlank ==
    [isdict |-> TRUE, averageRating |-> <<>>, ratingsCount |-> <<>>,
     pageCount |-> <<>>, categories |-> <<>>, description |-> <<>>]

VolByIsbn ==
    [isdict |-> TRUE, averageRating |-> <<5>>, ratingsCount |-> <<10>>,
     pageCount |-> <<412>>,
     categories |-> <<[islist |-> TRUE, items |-> <<"Fiction", "Classics">>]>>,
     description |-> <<"matched by isbn">>]

VolByTitle == [VolBlank EXCEPT !.averageRating = <<3>>, !.description = <<"matched by title">>]

\* "volumeInfo": "..." (not an object)
VolNotDict == [VolBlank EXCEPT !.isdict = FALSE]

\* "categories": null
VolNullCategories ==
    [VolBlank EXCEPT !.pageCount = <<100>>,
                     !.categories = <<[islist |-> FALSE, items |-> <<>>]>>]

GResp(kind, body, vol) == [kind |-> kind, body |-> body, vol |-> vol]

\* Outcomes of one requests.get(url) and of reading its body.  "silent" is a
\* server that never answers: requests.get is called without timeout=, so
\* the call does not return.
GResponses ==
    { GResp("silent", "none", VolBlank),
      GResp("exception", "none", VolBlank),
      GResp("non200", "none", VolBlank),
      GResp("ok", "badjson", VolBlank),
      GResp("ok", "noitems", VolBlank),
      GResp("ok", "emptyitems", VolBlank),
      GResp("ok", "match", VolBlank),
      GResp("ok", "match", VolByIsbn),
      GResp("ok", "match", VolByTitle),
      GResp("ok", "match", VolNotDict),
      GResp("ok", "match", VolNullCategories) }

\* status 200, 'items' in data and data['items'][0]['volumeInfo'] readable
IsMatch(r) == r.kind = "ok" /\ r.body = "match"

\* the request raised, or the status was not 200, or the body was not JSON:
\* swallowed by "except: pass" or skipped by the status test
IsFailure(r) == r.kind \in {"exception", "non200"} \/ (r.kind = "ok" /\ r.body = "badjson")

\* requests.get never returns
IsSilent(r) == r.kind = "silent"

IsbnUsable(isbn) ==
    /\ Truthy(isbn)
    /\ Lower(Str(isbn)) # STR_nan
    /\ Lower(Str(isbn)) # STR_unknown

TitleUsable(title) == title # <<>> /\ Lower(title) # STR_unknown

AuthorUsable(author) == Truthy(author) /\ Lower(Str(author)) # STR_unknown

IsbnQuery(isbn) ==
    [kind |-> "isbn", isbn |-> Strip(RemoveDashes(Str(isbn))),
     title |-> <<>>, has_author |-> FALSE, author |-> <<>>]

TitleQuery(title, author) ==
    [kind |-> "title", isbn |-> <<>>, title |-> title,
     has_author |-> AuthorUsable(author),
     author |-> IF AuthorUsable(author) THEN Str(author) ELSE <<>>]

\* Step 2 of the chain, with r2 the outcome of its request (when issued)
TitleStep(title, author, r2, queries) ==
    IF TitleUsable(title)
    THEN [queries |-> Append(queries, TitleQuery(title, author)),
          result |-> IF IsMatch(r2) THEN <<r2.vol>> ELSE <<>>]
    ELSE [queries |-> queries, result |-> <<>>]

\* the chain without the return inside step 1: the title step runs as well
\* and its match, when there is one, replaces the identifier match
get_book_info_from_google_NoReturn(isbn, title, author, r1, r2) ==
    IF IsbnUsable(isbn)
    THEN LET t == TitleStep(title, author, r2, <<IsbnQuery(isbn)>>)
         IN  IF t.result # <<>> \/ ~IsMatch(r1)
             THEN t
             ELSE [queries |-> t.queries, result |-> <<r1.vol>>]
    ELSE TitleStep(title, author, r2, <<>>)

\* get_book_info_from_google(isbn, title, author): r1 and r2 are the outcomes
\* of the identifier request and of the title request.  result is <<>> for
\* None and <<volumeInfo>> otherwise; queries are the requests issued.
get_book_info_from_google(isbn, title, author, r1, r2) ==
    IF IsbnUsable(isbn)
    THEN IF IsMatch(r1)
         THEN [queries |-> <<IsbnQuery(isbn)>>, result |-> <<r1.vol>>]
         ELSE TitleStep(title, author, r2, <<IsbnQuery(isbn)>>)
    ELSE TitleStep(title, author, r2, <<>>)

\* the requests issued when one of them never returns: the chain stops in it
PendingQueries(isbn, title, author, r1, r2) ==
    IF IsbnUsable(isbn) /\ IsSilent(r1)
    THEN <<IsbnQuery(isbn)>>
    ELSE get_book_info_from_google(isbn, title, author, r1, r2).queries

\* time.sleep(0.5) at line 120 is inside the else branch of the cache test
SleepAfter_Always(hit) == TRUE

SleepAfter(hit) == ~hit

\* if info_raw: (None and {} are false)
InfoRawTruthy(raw) ==
    /\ raw # <<>>
    /\ \/ ~raw[1].isdict
       \/ raw[1].averageRating # <<>>
       \/ raw[1].ratingsCount # <<>>
       \/ raw[1].pageCount # <<>>
       \/ raw[1].categories # <<>>
       \/ raw[1].description # <<>>

DefaultInfo == [rating |-> 0, count |-> 0, pages |-> 0, categories |-> "Unknown", desc |-> ""]

\* info_raw.get(...) on a non-dict raises AttributeError; ", ".join(None)
\* raises TypeError.  Neither is inside a try block.
BuildInfoRaises(raw) ==
    /\ InfoRawTruthy(raw)
    /\ \/ ~raw[1].isdict
       \/ raw[1].categories # <<>> /\ ~raw[1].categories[1].islist

BuildInfo(raw) ==
    IF InfoRawTruthy(raw)
    THEN [rating |-> Get(raw[1].averageRating, 0),
          count |-> Get(raw[1].ratingsCount, 0),
          pages |-> Get(raw[1].pageCount, 0),
          categories |->
             Join(Get(raw[1].categories, [islist |-> TRUE, items |-> <<"Unknown">>]).items),
          desc |-> Get(raw[1].description, "")]
    ELSE DefaultInfo

\* the key without .strip()
TitleKey_Untrimmed(row, has_col) == IF has_col THEN Str(row.Title) ELSE STR_Unknown

\* title_key = str(row.get('Title', 'Unknown')).strip()
TitleKey(row, has_col) == Strip(IF has_col THEN Str(row.Title) ELSE STR_Unknown)

\* row.get('api_isbn', ''), row.get('api_author', '')
RowGet(row, col) == row[col]

\* the cache consulted with the key before .strip() padded back: never found
CacheHit_Untrimmed(c, key) == (<<" ">> \o key) \in DOMAIN c

\* cache = {title_key: info}: the new entry replaces the cache
CachePut_Replace(c, key, info) == [k \in {key} |-> info]

\* if title_key in cache
CacheHit(c, key) == key \in DOMAIN c

\* cache[title_key] = info
CachePut(c, key, info) ==
    [k \in (DOMAIN c) \cup {key} |-> IF k = key THEN info ELSE c[k]]

EmptyCache == [k \in {} |-> DefaultInfo]

(***************************************************************************)
(* State                                                                   *)
(***************************************************************************)
VARIABLES
    script,             \* which script runs: "openlibrary" or "google"
    df,                 \* the input dataset: rows [Title, api_isbn, api_author]
    has_title,          \* whether df has a 'Title' column
    sample_size,        \* enrich_dataset_with_api's sample_size (0 is None)
    ol_pc,              \* position of api_enrichment.main
    titles_to_process,
    idx,                \* titles of titles_to_process resolved so far
    attempt,            \* loop variable of search_book_by_title
    last_search,        \* the current or last search_book_by_title call
    enriched_data,
    result_df,
    g_pc,               \* position of get_google_data.main
    run,                \* runs of get_google_data.main started so far
    cache,              \* the in-memory cache dict
    cache_loaded,       \* the dict json.load returned at startup
    rows_processed,
    new_data,           \* the five column lists, as one list of info dicts
    cache_file,         \* CACHE_FILE on disk
    looked_up,          \* title keys get_book_info_from_google was called for, this run
    last_row,           \* what the last pass of the row loop did
    remote,             \* the outcomes the Google Books service can produce
    output              \* the output CSV: <<>> until written, then <<rows>>

vars == <<script, df, has_title, sample_size, ol_pc, titles_to_process, idx,
          attempt, last_search, enriched_data, result_df, g_pc, run, cache,
          cache_loaded, rows_processed, new_data, cache_file, looked_up,
          last_row, remote, output>>

olVars == <<ol_pc, titles_to_process, idx, attempt, last_search, enriched_data, result_df>>

gVars == <<g_pc, run, cache, cache_loaded, rows_processed, new_data, cache_file,
           looked_up, last_row>>

inputVars == <<script, df, has_title, sample_size, remote>>

(***************************************************************************)
(* Input datasets                                                          *)
(***************************************************************************)
Row(title, isbn, author) == [Title |-> title, api_isbn |-> isbn, api_author |-> author]

TitleCells ==
    { NaN, Cell(<<" ">>), Cell(STR_Unknown), Cell(STR_Dune),
      Cell(<<" ">> \o STR_Dune), Cell(STR_Emma) }

\* rows of the Open Library input: only the title column is read
OLRows == { Row(t, NaN, NaN) : t \in TitleCells }

Datasets(rows, n) == UNION { [1..k -> rows] : k \in 0..n }

\* requests, timeouts: requests issued and timeouts met so far; nonempty: some
\* answer had status 200 and a non-empty docs list; outcome: how the call
\* ended ("blank", "found", "nomatch", "failure"); slept: time.sleep(delay)
\* has followed the call
NoSearch == [title |-> NaN, requests |-> 0, timeouts |-> 0, done |-> FALSE,
             record |-> get_default_data(FALSE), nonempty |-> FALSE,
             outcome |-> "none", slept |-> FALSE]

\* failed: some request of the row's lookup ended in a failure; pending: the
\* lookup is inside a request that does not return
NoRow == [index |-> 0, title_key |-> <<>>, hit |-> FALSE, called |-> FALSE,
          queries |-> <<>>, isbn_match |-> <<>>, raw |-> <<>>, failed |-> FALSE,
          pending |-> FALSE,
          flushed |-> FALSE, slept |-> FALSE]

AbsentFile == [kind |-> "absent", map |-> EmptyCache]

OLIdle ==
    /\ ol_pc = "idle" /\ titles_to_process = <<>> /\ idx = 0 /\ attempt = 0
    /\ last_search = NoSearch /\ enriched_data = <<>> /\ result_df = <<>>

GIdle ==
    /\ g_pc = "idle" /\ run = 0 /\ cache = EmptyCache /\ cache_loaded = EmptyCache
    /\ rows_processed = 0 /\ new_data = <<>> /\ looked_up = <<>> /\ last_row = NoRow

InitOL ==
    /\ script = "openlibrary"
    /\ has_title \in BOOLEAN
    /\ df \in Datasets(OLRows, MaxRows)
    /\ has_title = FALSE => \A i \in DOMAIN df : df[i].Title = NaN
    /\ sample_size \in 0..MaxSample
    /\ remote = {}
    /\ OLIdle /\ GIdle
    /\ cache_file = AbsentFile
    /\ output = <<>>

(***************************************************************************)
(* api_enrichment.py: enrich_dataset_with_api and main                     *)
(***************************************************************************)
\* the title column taken as it is, duplicates kept
Unique_NoDedup(seq) == seq

RECURSIVE Unique(_)
Unique(seq) ==
    IF seq = <<>> THEN <<>>
    ELSE LET rest == Unique(SubSeq(seq, 1, Len(seq) - 1))
             x == seq[Len(seq)]
         IN  IF \E i \in DOMAIN rest : rest[i] = x THEN rest ELSE Append(rest, x)

TitleColumn(d) == [i \in DOMAIN d |-> d[i].Title]

DropNa(seq) == SelectSeq(seq, LAMBDA c : ~c.isna)

\* df[title_column].dropna().unique()
UniqueTitles(d) == Unique(DropNa(TitleColumn(d)))

Range(seq) == { seq[i] : i \in DOMAIN seq }

\* np.random.choice(a, n, replace=False): any n distinct elements, any order
Choices(a, n) ==
    { q \in [1..n -> Range(a)] : \A i, j \in 1..n : i # j => q[i] # q[j] }

RowOf(rec) == [c \in ApiColumns |-> <<rec[c]>>]

NullApi == [c \in ApiColumns |-> <<>>]

NoColumns == [c \in {} |-> <<>>]

\* df.merge(enriched_df, left_on=title, right_on='original_title', how='left')
RECURSIVE MergeFrom(_, _, _)
MergeFrom(d, enriched, i) ==
    IF i > Len(d) THEN <<>>
    ELSE LET matches == SelectSeq(enriched, LAMBDA e : e.original_title = d[i].Title)
             rows == IF matches = <<>>
                     THEN << [src |-> i, api |-> NullApi] >>
                     ELSE [j \in 1..Len(matches) |->
                              [src |-> i, api |-> RowOf(matches[j].record)]]
         IN  rows \o MergeFrom(d, enriched, i + 1)

\* result_df[col] = result_df[col].fillna(val) for every default column
FillNa(rows) ==
    [i \in DOMAIN rows |->
        [src |-> rows[i].src,
         api |-> [c \in ApiColumns |->
                    IF rows[i].api[c] = <<>>
                    THEN <<get_default_data(FALSE)[c]>>
                    ELSE rows[i].api[c]]]]

\* lines 130-140: the titles the loop will resolve
TitlesToProcess(d, n) ==
    IF n # 0 /\ n < Len(UniqueTitles(d))
    THEN Choices(UniqueTitles(d), n)
    ELSE { UniqueTitles(d) }

\* enrich_dataset_with_api up to the loop (lines 120-146)
OL_Start ==
    /\ script = "openlibrary" /\ ol_pc = "idle"
    /\ IF ~has_title
       THEN /\ result_df' = [i \in DOMAIN df |-> [src |-> i, api |-> NoColumns]]
            /\ ol_pc' = "save"
            /\ UNCHANGED titles_to_process
       ELSE /\ titles_to_process' \in TitlesToProcess(df, sample_size)
            /\ ol_pc' = "loop"
            /\ UNCHANGED result_df
    /\ UNCHANGED <<idx, attempt, last_search, enriched_data, output>>
    /\ UNCHANGED gVars /\ UNCHANGED inputVars /\ UNCHANGED cache_file

\* the loop body up to the first request (lines 148-153, 66-71)
OL_BeginTitle ==
    /\ ol_pc = "loop" /\ idx < Len(titles_to_process)
    /\ LET title == titles_to_process[idx + 1]
       IN  IF IsBlankTitle(title)
           THEN /\ last_search' = [title |-> title, requests |-> 0, timeouts |-> 0,
                                   done |-> TRUE, record |-> get_default_data(FALSE),
                                   nonempty |-> FALSE, outcome |-> "blank",
                                   slept |-> SleepAfterTitle(0)]
                /\ enriched_data' = Append(enriched_data,
                        [original_title |-> title, record |-> get_default_data(FALSE)])
                /\ idx' = idx + 1
                /\ UNCHANGED ol_pc
           ELSE /\ last_search' = [title |-> title, requests |-> 0, timeouts |-> 0,
                                   done |-> FALSE, record |-> get_default_data(FALSE),
                                   nonempty |-> FALSE, outcome |-> "none",
                                   slept |-> FALSE]
                /\ ol_pc' = "attempt"
                /\ UNCHANGED <<enriched_data, idx>>
    /\ attempt' = 0
    /\ UNCHANGED <<titles_to_process, result_df, output>>
    /\ UNCHANGED gVars /\ UNCHANGED inputVars /\ UNCHANGED cache_file

\* one pass of the retry loop (lines 73-116), and lines 154-157 on a return
OL_Attempt ==
    /\ ol_pc = "attempt" /\ AttemptsLeft(attempt)
    /\ \E r \in OLResponses :
        LET res == AttemptResult(r)
            stats == [last_search EXCEPT
                        !.requests = @ + 1,
                        !.timeouts = IF r.kind = "timeout" THEN @ + 1 ELSE @,
                        !.nonempty = @ \/ (r.kind = "ok" /\ r.body = "docs")]
        IN  IF res.action = "return"
            THEN /\ last_search' = [stats EXCEPT
                        !.done = TRUE, !.record = res.record,
                        !.outcome = IF r.body = "docs" THEN "found" ELSE "nomatch",
                        !.slept = SleepAfterTitle(stats.requests)]
                 /\ enriched_data' = Append(enriched_data,
                        [original_title |-> last_search.title, record |-> res.record])
                 /\ idx' = idx + 1
                 /\ ol_pc' = "loop"
                 /\ UNCHANGED attempt
            ELSE /\ last_search' = stats
                 /\ attempt' = attempt + 1
                 /\ UNCHANGED <<enriched_data, idx, ol_pc>>
    /\ UNCHANGED <<titles_to_process, result_df, output>>
    /\ UNCHANGED gVars /\ UNCHANGED inputVars /\ UNCHANGED cache_file

\* the loop is exhausted (line 118), then lines 154-157
OL_GiveUp ==
    /\ ol_pc = "attempt" /\ ~AttemptsLeft(attempt)
    /\ last_search' = [last_search EXCEPT
            !.done = TRUE, !.record = FailureRecord, !.outcome = "failure",
            !.slept = SleepAfterTitle(last_search.requests)]
    /\ enriched_data' = Append(enriched_data,
            [original_title |-> last_search.title, record |-> FailureRecord])
    /\ idx' = idx + 1
    /\ ol_pc' = "loop"
    /\ UNCHANGED <<attempt, titles_to_process, result_df, output>>
    /\ UNCHANGED gVars /\ UNCHANGED inputVars /\ UNCHANGED cache_file

\* pd.DataFrame([]) has no 'original_title' column: the merge raises KeyError
MergeRaises(enriched) == enriched = <<>>

\* lines 159-182
OL_Merge ==
    /\ ol_pc = "loop" /\ idx = Len(titles_to_process)
    /\ IF MergeRaises(enriched_data)
       THEN ol_pc' = "aborted" /\ UNCHANGED result_df
       ELSE /\ result_df' = FillNa(MergeFrom(df, enriched_data, 1))
            /\ ol_pc' = "save"
    /\ UNCHANGED <<titles_to_process, idx, attempt, last_search, enriched_data, output>>
    /\ UNCHANGED gVars /\ UNCHANGED inputVars /\ UNCHANGED cache_file

\* main, lines 222-232: enriched_df.to_csv(output_file)
OL_Save ==
    /\ ol_pc = "save"
    /\ output' = <<result_df>>
    /\ ol_pc' = "done"
    /\ UNCHANGED <<titles_to_process, idx, attempt, last_search, enriched_data, result_df>>
    /\ UNCHANGED gVars /\ UNCHANGED inputVars /\ UNCHANGED cache_file

NextOL == OL_Start \/ OL_BeginTitle \/ OL_Attempt \/ OL_GiveUp \/ OL_Merge \/ OL_Save

SpecOL == InitOL /\ [][NextOL]_vars

(***************************************************************************)
(* get_google_data.py: main                                                *)
(***************************************************************************)
ISBN_dashed == <<"9","7","-","8">>
STR_Herbert == <<"H","e","r","b","e","r","t">>

\* rows of the Google input.  Cell(<<>>) is the '' that row.get(col, '')
\* returns when the column is missing.
GRows ==
    { Row(Cell(STR_Dune), Cell(ISBN_dashed), Cell(STR_Herbert)),
      Row(Cell(<<" ">> \o STR_Dune), NaN, Cell(STR_Unknown)),
      Row(NaN, Cell(<<>>), NaN),
      Row(NaN, Cell(ISBN_dashed), NaN),
      Row(Cell(<<" ">>), Cell(ISBN_dashed), Cell(STR_Herbert)),
      Row(Cell(STR_Unknown), Cell(STR_Unknown), Cell(STR_Herbert)),
      Row(Cell(STR_Emma), NaN, Cell(STR_Herbert)) }

\* a record left in the cache file by an earlier run
CachedDune == [rating |-> 4, count |-> 7, pages |-> 604,
               categories |-> "Science Fiction", desc |-> "from an earlier run"]

CompleteFile(map) == [kind |-> "complete", map |-> map]

\* open(CACHE_FILE, 'w') truncates the file; json.dump has not finished
TruncatedFile == [kind |-> "partial", map |-> EmptyCache]

WarmFile == CompleteFile(CachePut(EmptyCache, STR_Dune, CachedDune))

InitG ==
    /\ script = "google"
    /\ has_title \in BOOLEAN
    /\ df \in Datasets(GRows, MaxRows)
    /\ has_title = FALSE => \A i \in DOMAIN df : df[i].Title = NaN
    /\ sample_size = 0
    /\ remote = GResponses
    /\ OLIdle /\ GIdle
    /\ cache_file \in {AbsentFile, WarmFile}
    /\ output = <<>>

GoogleRowOf(info) ==
    [c \in GoogleColumns |->
        CASE c = "google_rating" -> <<info.rating>>
          [] c = "google_ratings_count" -> <<info.count>>
          [] c = "google_page_count" -> <<info.pages>>
          [] c = "google_categories" -> <<info.categories>>
          [] c = "google_description" -> <<info.desc>>]

\* lines 136-140: df[col] = values, one value per row
GoogleOutput(d, data) == [i \in DOMAIN d |-> [src |-> i, api |-> GoogleRowOf(data[i])]]

\* if rows_processed % 50 == 0
FlushDue(n) == n % FlushEvery = 0

\* a request that is not issued has no outcome
NoResponse == GResp("none", "none", VolBlank)

IsbnOutcomes(isbn) == IF IsbnUsable(isbn) THEN remote ELSE {NoResponse}

TitleOutcomes(isbn, title, r1) ==
    IF TitleUsable(title) /\ ~(IsbnUsable(isbn) /\ (IsMatch(r1) \/ IsSilent(r1)))
    THEN remote ELSE {NoResponse}

\* main up to the row loop (lines 52-82); json.load raises on a file that
\* does not hold a complete JSON document
G_Start ==
    /\ script = "google"
    /\ g_pc \in {"idle", "done", "aborted", "crashed"}
    /\ run < MaxRuns
    /\ run' = run + 1
    /\ IF cache_file.kind = "partial"
       THEN /\ g_pc' = "aborted"
            /\ cache' = EmptyCache
       ELSE /\ g_pc' = "loop"
            /\ cache' = IF cache_file.kind = "complete" THEN cache_file.map ELSE EmptyCache
    /\ cache_loaded' = cache'
    /\ rows_processed' = 0
    /\ new_data' = <<>>
    /\ looked_up' = <<>>
    /\ last_row' = NoRow
    /\ UNCHANGED <<cache_file, output>>
    /\ UNCHANGED olVars /\ UNCHANGED inputVars

\* one pass of the row loop (lines 84-129), up to open(CACHE_FILE, 'w') when
\* the flush is due, or up to a request that never returns
G_Row ==
    /\ g_pc = "loop" /\ rows_processed < Len(df)
    /\ LET row == df[rows_processed + 1]
           title_key == TitleKey(row, has_title)
       IN  IF CacheHit(cache, title_key)
           THEN /\ new_data' = Append(new_data, cache[title_key])
                /\ rows_processed' = rows_processed + 1
                /\ last_row' = [index |-> rows_processed + 1, title_key |-> title_key,
                                hit |-> TRUE, called |-> FALSE, queries |-> <<>>,
                                isbn_match |-> <<>>, raw |-> <<>>, failed |-> FALSE,
                                pending |-> FALSE,
                                flushed |-> FALSE, slept |-> SleepAfter(TRUE)]
                /\ UNCHANGED <<g_pc, cache, cache_file, looked_up>>
           ELSE \E r1 \in IsbnOutcomes(row.api_isbn) :
                \E r2 \in TitleOutcomes(row.api_isbn, title_key, r1) :
                LET res == get_book_info_from_google(
                               RowGet(row, "api_isbn"), title_key,
                               RowGet(row, "api_author"), r1, r2)
                    seen == [index |-> rows_processed + 1, title_key |-> title_key,
                             hit |-> FALSE, called |-> TRUE, queries |-> res.queries,
                             isbn_match |->
                                IF IsbnUsable(row.api_isbn) /\ IsMatch(r1)
                                THEN <<r1.vol>> ELSE <<>>,
                             raw |-> res.result,
                             failed |-> IsFailure(r1) \/ IsFailure(r2),
                             pending |-> IsSilent(r1) \/ IsSilent(r2),
                             flushed |-> FALSE, slept |-> FALSE]
                IN  /\ looked_up' = Append(looked_up, title_key)
                    /\ IF IsSilent(r1) \/ IsSilent(r2)
                       THEN /\ g_pc' = "blocked"
                            /\ last_row' = [seen EXCEPT
                                   !.queries = PendingQueries(
                                       RowGet(row, "api_isbn"), title_key,
                                       RowGet(row, "api_author"), r1, r2),
                                   !.raw = <<>>]
                            /\ UNCHANGED <<cache, cache_file, new_data, rows_processed>>
                       ELSE IF BuildInfoRaises(res.result)
                       THEN /\ g_pc' = "aborted"
                            /\ last_row' = seen
                            /\ UNCHANGED <<cache, cache_file, new_data, rows_processed>>
                       ELSE /\ cache' = CachePut(cache, title_key, BuildInfo(res.result))
                            /\ IF FlushDue(rows_processed)
                               THEN /\ cache_file' = TruncatedFile
                                    /\ g_pc' = "flush"
                                    /\ last_row' = seen
                                    /\ UNCHANGED <<new_data, rows_processed>>
                               ELSE /\ new_data' = Append(new_data, BuildInfo(res.result))
                                    /\ rows_processed' = rows_processed + 1
                                    /\ last_row' = [seen EXCEPT !.slept = SleepAfter(FALSE)]
                                    /\ UNCHANGED <<g_pc, cache_file>>
    /\ UNCHANGED <<run, cache_loaded, output>>
    /\ UNCHANGED olVars /\ UNCHANGED inputVars

\* json.dump(cache, f) completes (line 117), then lines 120-129
G_FlushDump ==
    /\ g_pc = "flush"
    /\ cache_file' = CompleteFile(cache)
    /\ new_data' = Append(new_data, cache[last_row.title_key])
    /\ rows_processed' = rows_processed + 1
    /\ last_row' = [last_row EXCEPT !.flushed = TRUE, !.slept = SleepAfter(FALSE)]
    /\ g_pc' = "loop"
    /\ UNCHANGED <<run, cache, cache_loaded, looked_up, output>>
    /\ UNCHANGED olVars /\ UNCHANGED inputVars

\* json.dump raises (an I/O error): no except clause, main is left
G_FlushFail ==
    /\ g_pc \in {"flush", "final_flush"}
    /\ g_pc' = "aborted"
    /\ UNCHANGED <<run, cache, cache_loaded, rows_processed, new_data, cache_file,
                   looked_up, last_row, output>>
    /\ UNCHANGED olVars /\ UNCHANGED inputVars

\* after the loop: open(CACHE_FILE, 'w') (line 132)
G_FinalOpen ==
    /\ g_pc = "loop" /\ rows_processed = Len(df)
    /\ cache_file' = TruncatedFile
    /\ g_pc' = "final_flush"
    /\ UNCHANGED <<run, cache, cache_loaded, rows_processed, new_data, looked_up,
                   last_row, output>>
    /\ UNCHANGED olVars /\ UNCHANGED inputVars

\* json.dump(cache, f) completes (line 133), then lines 135-140
G_FinalDump ==
    /\ g_pc = "final_flush"
    /\ cache_file' = CompleteFile(cache)
    /\ output' = <<GoogleOutput(df, new_data)>>
    /\ g_pc' = "done"
    /\ UNCHANGED <<run, cache, cache_loaded, rows_processed, new_data, looked_up, last_row>>
    /\ UNCHANGED olVars /\ UNCHANGED inputVars

\* main is stopped while it runs: the process is killed, or it is interrupted
\* and KeyboardInterrupt leaves main, which has no try/finally and installs
\* no signal handler.  (Inside a request the bare "except:" swallows the
\* interrupt, so a process waiting for an answer is stopped by a kill.)
G_Crash ==
    /\ g_pc \in {"loop", "flush", "final_flush", "blocked"}
    /\ g_pc' = "crashed"
    /\ UNCHANGED <<run, cache, cache_loaded, rows_processed, new_data, cache_file,
                   looked_up, last_row, output>>
    /\ UNCHANGED olVars /\ UNCHANGED inputVars

NextG ==
    G_Start \/ G_Row \/ G_FlushDump \/ G_FlushFail \/ G_FinalOpen \/ G_FinalDump \/ G_Crash

Init == InitOL \/ InitG

Next == NextOL \/ NextG

Spec == Init /\ [][Next]_vars

(***************************************************************************)
(* A long Google run: enough rows to pass the flush cadence                *)
(***************************************************************************)
DigitChars == <<"0","1","2","3","4","5","6","7","8","9">>

RECURSIVE Digits(_)
Digits(n) ==
    IF n < 10 THEN <<DigitChars[n + 1]>>
    ELSE Digits(n \div 10) \o <<DigitChars[(n % 10) + 1]>>

LongTitle(i) == <<"B","k">> \o Digits(i)

\* LongRows rows with distinct titles, but row rep repeats the first title
LongDf(rep) ==
    [i \in 1..LongRows |-> Row(Cell(LongTitle(IF i = rep THEN 1 ELSE i)), NaN, NaN)]

LongDatasets == { LongDf(0), LongDf(2), LongDf(FlushEvery + 1) }

InitLong ==
    /\ script = "google"
    /\ has_title = TRUE
    /\ df \in LongDatasets
    /\ sample_size = 0
    /\ remote = { GResp("ok", "noitems", VolBlank) }
    /\ OLIdle /\ GIdle
    /\ cache_file = AbsentFile
    /\ output = <<>>

SpecLong == InitLong /\ [][NextG]_vars

(***************************************************************************)
(* Properties                                                              *)
(***************************************************************************)
NoRepeats(seq) == \A i, j \in DOMAIN seq : i # j => seq[i] # seq[j]

BlankCell(c) == c.isna \/ Strip(c.s) = <<>>

DeclaredColumns == IF script = "openlibrary" THEN ApiColumns ELSE GoogleColumns

KeyOfRow(i) == TitleKey(df[i], has_title)

\* C1: when a script has ended its enrichment (Open Library: main has saved
\* or was left by an exception; Google: main has saved), the output file
\* exists and holds each input row exactly once, in order.
C1_RowsPreserved ==
    (ol_pc \in {"done", "aborted"} \/ g_pc = "done")
    => /\ output # <<>>
       /\ Len(output[1]) = Len(df)
       /\ \A i \in DOMAIN df : output[1][i].src = i

\* C2: once the output is written, every row has every declared enrichment
\* column, and none of them is null.
C2_EveryAttributeFilled ==
    (ol_pc = "done" \/ g_pc = "done")
    => \A i \in DOMAIN output[1] : \A c \in DeclaredColumns :
          /\ c \in DOMAIN output[1][i].api
          /\ output[1][i].api[c] # <<>>

\* C2 restricted to datasets that have a title column (holds; not the claim)
C2_FilledGivenTitleColumn == has_title => C2_EveryAttributeFilled

\* C3: within a run no title key is looked up twice and no key loaded from
\* the cache file is looked up at all; a cache hit issues no request and
\* puts the cached record in the output unchanged; a completed run leaves
\* every title key of the dataset in the cache file, so the next run is
\* served from it; Open Library resolves each title at most once per run.
C3_OneLookupPerTitle ==
    /\ NoRepeats(looked_up)
    /\ \A i \in DOMAIN looked_up : looked_up[i] \notin DOMAIN cache_loaded
    /\ last_row.hit =>
          /\ last_row.queries = <<>> /\ ~last_row.called
          /\ new_data[last_row.index] = cache[last_row.title_key]
    /\ \A i \in DOMAIN new_data :
          KeyOfRow(i) \in DOMAIN cache_loaded => new_data[i] = cache_loaded[KeyOfRow(i)]
    /\ g_pc = "done" =>
          /\ cache_file = CompleteFile(cache)
          /\ \A i \in DOMAIN df :
                /\ KeyOfRow(i) \in DOMAIN cache
                /\ output[1][i].api = GoogleRowOf(cache[KeyOfRow(i)])
    /\ NoRepeats([i \in DOMAIN enriched_data |-> enriched_data[i].original_title])

\* a second run that finished without a single lookup, on titles the first
\* run resolved
C3_Witness ==
    /\ run = 2 /\ g_pc = "done" /\ looked_up = <<>> /\ Len(df) = 2
    /\ STR_Emma \in DOMAIN cache_loaded
    /\ last_row.hit

\* C4: when the identifier query returns a match, that volume is the result
\* of the lookup and the identifier query is the only request; in every
\* lookup the identifier query, when issued, is the first request.
C4_IsbnMatchWins ==
    /\ last_row.isbn_match # <<>> =>
          /\ last_row.raw = last_row.isbn_match
          /\ Len(last_row.queries) = 1
          /\ last_row.queries[1].kind = "isbn"
    /\ \A i \in DOMAIN last_row.queries :
          /\ last_row.queries[i].kind = "isbn" => i = 1
          /\ last_row.queries[i].kind = "title" => i = Len(last_row.queries)

\* an identifier match for a row whose title could have been queried too
C4_Witness ==
    /\ last_row.isbn_match = <<VolByIsbn>>
    /\ TitleUsable(last_row.title_key)
    /\ last_row.raw = <<VolByIsbn>>

\* C5: a search issues at most max_retries requests; when it has ended and
\* every request timed out, it issued exactly max_retries requests and its
\* result is the found=False default record; the retry loop always has a
\* next step (another attempt or the return).
C5_RetryBound ==
    /\ last_search.requests <= max_retries
    /\ attempt <= max_retries
    /\ ol_pc = "attempt" => attempt = last_search.requests
    /\ (last_search.done /\ last_search.requests > 0
            /\ last_search.timeouts = last_search.requests)
       => /\ last_search.requests = max_retries
          /\ last_search.record = get_default_data(FALSE)

\* a search that ended after max_retries timeouts
C5_Witness ==
    /\ last_search.done
    /\ last_search.timeouts = max_retries
    /\ last_search.record = get_default_data(FALSE)
    /\ ol_pc = "loop"

\* C6: a row whose title is null, empty or blank is resolved without any
\* request, to the default record, in both scripts.
C6_BlankTitleNoRequest ==
    /\ (last_search.done /\ BlankCell(last_search.title))
       => /\ last_search.requests = 0
          /\ last_search.record = get_default_data(FALSE)
    /\ (has_title /\ last_row.index > 0 /\ BlankCell(df[last_row.index].Title))
       => /\ last_row.queries = <<>>
          /\ last_row.title_key \in DOMAIN cache
                => cache[last_row.title_key] = DefaultInfo

\* the titles that are in the in-memory cache and not in the cache file
Unflushed ==
    (DOMAIN cache) \ (IF cache_file.kind = "complete" THEN DOMAIN cache_file.map ELSE {})

\* C7: between two rows of a Google run (no flush in progress) at most
\* FlushEvery cached titles are missing from the cache file.
C7_UnflushedBounded ==
    (g_pc = "loop" /\ cache_file.kind # "partial")
    => Cardinality(Unflushed) <= FlushEvery

\* C8: whenever a Google run (on a dataset with a title column) has been
\* killed or left by an exception, the cache file holds a complete map (or
\* does not exist), never a truncated one.
C8_FlushAtomic ==
    (has_title /\ g_pc \in {"crashed", "aborted"}) => cache_file.kind # "partial"

\* C9: a lookup that returned for a row with a non-blank title ends with
\* a record for that title in the cache (the run goes on); an Open Library
\* search that ends without a match ends with the default record.
C9_TitleFailureAbsorbed ==
    /\ (has_title /\ last_row.called /\ ~last_row.pending
           /\ ~BlankCell(df[last_row.index].Title))
       => last_row.title_key \in DOMAIN cache
    /\ (last_search.done /\ ~last_search.record.api_found)
       => last_search.record = get_default_data(FALSE)

\* C10: on a dataset without a title column no lookup is made and no output
\* file is written.
C10_MissingColumnFatal ==
    ~has_title => /\ output = <<>>
                  /\ looked_up = <<>>
                  /\ enriched_data = <<>>

\* C11: an I/O failure while the cache is being written does not end the
\* run: no step taken during a flush leaves main through an exception.
C11_FlushFailureNotFatal ==
    [][(has_title /\ g_pc \in {"flush", "final_flush"}) => g_pc' # "aborted"]_vars

\* C12: when a Google run has been stopped early (outside a flush, the
\* cache file being readable), every record of the in-memory cache is in
\* the cache file.
C12_FlushedOnStop ==
    (has_title /\ g_pc \in {"crashed", "aborted"} /\ cache_file.kind = "complete")
    => \A k \in DOMAIN cache :
          k \in DOMAIN cache_file.map /\ cache_file.map[k] = cache[k]

\* C13: every request ends within a bound: a run is never inside a request
\* that does not return, and an Open Library title takes at most
\* max_retries requests.
C13_RequestsBounded ==
    /\ g_pc # "blocked"
    /\ ~last_row.pending
    /\ last_search.requests <= max_retries

AbsentOrUnknown(c) == c.isna \/ c.s = <<>> \/ Lower(c.s) = STR_unknown

\* C14: the lookup of a row issues no identifier query when the row's isbn
\* is absent or 'unknown', no title query when its title is, and no author
\* constraint when its author is.
C14_NoQueryOnAbsentField ==
    (has_title /\ last_row.called)
    => LET row == df[last_row.index]
       IN  \A i \in DOMAIN last_row.queries :
              LET q == last_row.queries[i]
              IN  /\ q.kind = "isbn" => ~AbsentOrUnknown(row.api_isbn)
                  /\ q.kind = "title" => ~AbsentOrUnknown(row.Title)
                  /\ q.has_author => ~AbsentOrUnknown(row.api_author)

\* C15: a lookup that returned unresolved for a row with a title and an
\* author, after a title query constrained by the author, has issued a
\* title-only query after it.
C15_TitleOnlyFallback ==
    (has_title /\ last_row.called /\ ~last_row.pending /\ last_row.raw = <<>>
        /\ ~AbsentOrUnknown(df[last_row.index].Title)
        /\ ~AbsentOrUnknown(df[last_row.index].api_author))
    => \A i \in DOMAIN last_row.queries :
          last_row.queries[i].has_author
          => \E j \in DOMAIN last_row.queries :
                /\ j > i
                /\ last_row.queries[j].kind = "title"
                /\ ~last_row.queries[j].has_author

\* C16: an Open Library search of a non-blank title in which no request
\* returned status 200 with a non-empty docs list ends with
\* get_default_data(found=False); a record whose api_found is true comes
\* from such a response; and the output row of every title resolved without
\* a match carries the default record.
C16_DefaultWhenNoMatch ==
    /\ (last_search.done /\ ~IsBlankTitle(last_search.title) /\ ~last_search.nonempty)
       => last_search.record = get_default_data(FALSE)
    /\ (last_search.done /\ last_search.record.api_found) => last_search.nonempty
    /\ \A k \in DOMAIN enriched_data :
          /\ enriched_data[k].record.api_found
             \/ enriched_data[k].record = get_default_data(FALSE)
          /\ (ol_pc = "done" /\ has_title)
             => \A i \in DOMAIN df :
                   df[i].Title = enriched_data[k].original_title
                   => output[1][i].api = RowOf(enriched_data[k].record)

\* a non-blank title given up after max_retries failed requests, saved with
\* the default record
C16_Witness ==
    /\ ol_pc = "done" /\ has_title /\ Len(df) = 1
    /\ last_search.title = Cell(STR_Dune)
    /\ last_search.outcome = "failure" /\ last_search.requests = max_retries
    /\ output[1][1].api = RowOf(get_default_data(FALSE))

\* what search_book_by_title returns for status 200 with an empty docs list
NoMatchValue == AttemptResult([kind |-> "ok", body |-> "nodocs", book |-> BookBare]).record

\* C17 as stated: the value returned after a failure differs from the value
\* returned for no match (Open Library: the record; Google: None).
C17_FailureDistinct ==
    /\ (last_search.done /\ last_search.outcome = "failure")
       => last_search.record # NoMatchValue
    /\ (last_row.called /\ ~last_row.pending /\ last_row.failed
           /\ Len(last_row.queries) = 1)
       => last_row.raw # <<>>

\* C17, amended: a failure and a no-match return the same value: the
\* found=False default record from search_book_by_title, None from
\* get_book_info_from_google (stored as the default cache record).
C17_FailureSameAsNoMatch ==
    /\ (last_search.done /\ last_search.outcome \in {"failure", "nomatch"})
       => last_search.record = NoMatchValue
    /\ (last_row.called /\ ~last_row.pending /\ last_row.failed
           /\ Len(last_row.queries) = 1)
       => /\ last_row.raw = <<>>
          /\ cache[last_row.title_key] = DefaultInfo

\* a search that ended in failure and returned the no-match value
C17_Witness ==
    /\ last_search.done /\ last_search.outcome = "failure"
    /\ last_search.requests = max_retries
    /\ last_search.record = NoMatchValue

\* enrich_dataset_with_api has left its loop
OLResolved ==
    /\ script = "openlibrary" /\ has_title
    /\ \/ ol_pc \in {"save", "done", "aborted"}
       \/ ol_pc = "loop" /\ idx = Len(titles_to_process)

TableKeys == [k \in DOMAIN enriched_data |-> enriched_data[k].original_title]

\* C18 as stated: once the titles are resolved the table has one record per
\* unique non-null title of the dataset, none twice and none missing.
C18_OneRecordPerTitle ==
    OLResolved
    => /\ NoRepeats(TableKeys)
       /\ Range(TableKeys) = Range(DropNa(TitleColumn(df)))

\* C18, amended: the table has one record per title of titles_to_process,
\* none twice; these are all unique non-null titles when sample_size is
\* unset or not smaller than their number, and sample_size of them otherwise.
C18_OneRecordPerProcessedTitle ==
    OLResolved
    => /\ NoRepeats(TableKeys)
       /\ TableKeys = titles_to_process
       /\ Range(TableKeys) \subseteq Range(DropNa(TitleColumn(df)))
       /\ IF sample_size # 0 /\ sample_size < Len(UniqueTitles(df))
          THEN Len(TableKeys) = sample_size
          ELSE Range(TableKeys) = Range(DropNa(TitleColumn(df)))

\* a sample of one title out of two, resolved
C18_Witness ==
    /\ OLResolved /\ ol_pc = "done"
    /\ sample_size = 1 /\ Len(UniqueTitles(df)) = 2
    /\ Len(enriched_data) = 1

\* the row of last_row has been completed (lines 84-129)
RowCompleted == last_row.index # 0 /\ rows_processed >= last_row.index

\* C19 as stated: the delay follows a title resolution exactly when the
\* resolution issued a request.
C19_DelayOnlyAfterRequest ==
    /\ last_search.done => (last_search.slept <=> last_search.requests > 0)
    /\ RowCompleted => (last_row.slept <=> last_row.queries # <<>>)

\* C19, amended: Open Library sleeps after every title, Google after every
\* cache miss and never after a cache hit, whether or not a request was
\* issued; so two lookups are always separated by a delay.
C19_DelayAfterEveryMiss ==
    /\ last_search.done => last_search.slept
    /\ RowCompleted => (last_row.slept <=> ~last_row.hit)
    /\ last_row.hit => ~last_row.slept

\* a blank title, resolved without a request and followed by the delay
C19_Witness ==
    /\ last_search.done /\ last_search.outcome = "blank"
    /\ last_search.requests = 0 /\ last_search.slept

TrimmedTitle(i) == Strip(Str(df[i].Title))

\* C20: rows with the same trimmed title get the same record whatever their
\* identifier and author; the later one is a cache hit without a request;
\* the saved output carries that record in both rows.
C20_TitleAloneDecides ==
    has_title
    => /\ \A i, j \in DOMAIN new_data :
             TrimmedTitle(i) = TrimmedTitle(j) => new_data[i] = new_data[j]
       /\ (last_row.index # 0
              /\ \E i \in 1..(last_row.index - 1) :
                    TrimmedTitle(i) = TrimmedTitle(last_row.index))
          => last_row.hit /\ last_row.queries = <<>>
       /\ g_pc = "done"
          => \A i, j \in DOMAIN df :
                TrimmedTitle(i) = TrimmedTitle(j) => output[1][i].api = output[1][j].api

\* two rows with one title key, different identifier and author: the second
\* is served from the record resolved for the first
C20_Witness ==
    /\ g_pc = "done" /\ has_title /\ Len(df) = 2
    /\ df[1].Title # df[2].Title
    /\ df[1].api_isbn # df[2].api_isbn /\ df[1].api_author # df[2].api_author
    /\ looked_up = <<STR_Dune>> /\ cache_loaded = EmptyCache
    /\ last_row.index = 2 /\ last_row.hit
    /\ new_data[2] = new_data[1] /\ new_data[1] # DefaultInfo

\* the entries of map a are entries of map b, with the same values
SubMap(a, b) == \A k \in DOMAIN a : k \in DOMAIN b /\ b[k] = a[k]

\* a step of a run keeps every entry of the in-memory cache
CacheKept ==
    g_pc \in {"loop", "flush", "final_flush", "blocked"} => SubMap(cache, cache')

\* a step that writes the cache file: what the file held is in the in-memory
\* cache, and a completed json.dump has written the in-memory cache
FileWrittenFromCache ==
    cache_file' # cache_file
    => /\ SubMap(cache_file.map, cache')
       /\ cache_file'.kind = "complete" => cache_file'.map = cache'

\* C21: during a Google run the cache only grows: the in-memory cache
\* contains every entry of the cache file; no step of a run removes or
\* changes an entry of the in-memory cache; and whenever the file is written
\* (truncated by open, then filled by json.dump) every entry it held before
\* is in the in-memory cache, which is the map a completed flush writes.
C21_CacheOnlyGrows ==
    /\ [](g_pc # "idle" => SubMap(cache_file.map, cache))
    /\ [][CacheKept]_vars
    /\ [][FileWrittenFromCache]_vars

\* a run that loaded one record from the file, added another and wrote both
C21_Witness ==
    /\ g_pc = "done"
    /\ cache_loaded = WarmFile.map
    /\ DOMAIN cache = {STR_Dune, STR_Emma}
    /\ cache[STR_Dune] = CachedDune
    /\ cache_file = CompleteFile(cache)

====
